---- MODULE Spec2Model ----
(***************************************************************************)
(* A model of fix_timestamp.py: shifting the cue timings of a WebVTT file. *)
(*                                                                         *)
(* Text is a sequence of one-character strings.  A timedelta is the record *)
(* [ms, us] with 0 <= us < 1000, standing for ms*1000 + us microseconds    *)
(* (timedelta's own resolution is one microsecond, and it is normalised    *)
(* with a non-negative microsecond part in the same way).                  *)
(***************************************************************************)
EXTENDS Integers, Sequences, FiniteSets, TLC

VARIABLES
    pc,         \* position of main(): "start", "compute", "read", "shift",
                \* "write", "report", "exit"; "idle" outside a run of main
    args,       \* the argparse namespace: input_exists, seconds, offset, subtract
    input,      \* the lines of the input file
    shift,      \* main's local `shift`
    lines,      \* main's local `lines`
    new_lines,  \* main's local `new_lines`
    output,     \* the lines written to the output file, or None
    stdout,     \* the summary printed on success, or None
    stderr,     \* what the run printed on stderr, or None
    exit_code,  \* the process's exit status, or None while it runs
    td,         \* codec harness: the timedelta handed to format_hhmmss_mmm
    text,       \* codec harness: the text handed to parse_hhmmss_mmm
    parsed      \* codec harness: what parse_hhmmss_mmm returned or raised

vars == <<pc, args, input, shift, lines, new_lines, output, stdout, stderr,
          exit_code, td, text, parsed>>

None == "None"

(***************************************************************************)
(* Bounds of the model.                                                    *)
(***************************************************************************)
MaxLines == 2       \* the longest input file, in lines

(***************************************************************************)
(* Characters and str methods.                                             *)
(***************************************************************************)
DigitChars == <<"0", "1", "2", "3", "4", "5", "6", "7", "8", "9">>

IsDigit(c) == \E k \in 1..10 : DigitChars[k] = c

DigitVal(c) == (CHOOSE k \in 1..10 : DigitChars[k] = c) - 1

IsSpace(c) == c \in {" ", "\t", "\n", "\r", "\f"}

\* str.split(sep) for a one-character separator: always at least one part.
RECURSIVE Split(_, _)
Split(s, sep) ==
    IF \A k \in 1..Len(s) : s[k] # sep
    THEN <<s>>
    ELSE LET k == CHOOSE j \in 1..Len(s) :
                      s[j] = sep /\ \A h \in 1..(j - 1) : s[h] # sep
         IN  <<SubSeq(s, 1, k - 1)>> \o Split(SubSeq(s, k + 1, Len(s)), sep)

\* str.strip(), which int() applies to its argument.
RECURSIVE Strip(_)
Strip(s) ==
    IF s = <<>> THEN s
    ELSE IF IsSpace(s[1]) THEN Strip(Tail(s))
    ELSE IF IsSpace(s[Len(s)]) THEN Strip(SubSeq(s, 1, Len(s) - 1))
    ELSE s

RECURSIVE DigitsValue(_, _)
DigitsValue(s, acc) ==
    IF s = <<>> THEN acc
    ELSE IF s[1] = "_" THEN DigitsValue(Tail(s), acc)
    ELSE DigitsValue(Tail(s), acc * 10 + DigitVal(s[1]))

\* A decimal literal without its sign: digits that single underscores may
\* separate.
IsDecimal(body) ==
    /\ body # <<>>
    /\ \A k \in 1..Len(body) : IsDigit(body[k]) \/ body[k] = "_"
    /\ IsDigit(body[1]) /\ IsDigit(body[Len(body)])
    /\ \A k \in 1..(Len(body) - 1) : ~(body[k] = "_" /\ body[k + 1] = "_")

IntSigned(sign, body) ==
    IF IsDecimal(body)
    THEN [ok |-> TRUE,
          val |-> IF sign = "-" THEN 0 - DigitsValue(body, 0) ELSE DigitsValue(body, 0)]
    ELSE [ok |-> FALSE, val |-> 0]

HasSign(t) == t # <<>> /\ t[1] \in {"+", "-"}

IntStripped(t) ==
    IntSigned(IF HasSign(t) THEN t[1] ELSE "+", IF HasSign(t) THEN Tail(t) ELSE t)

\* int(s): surrounding whitespace, an optional sign, then a decimal literal.
\* [ok |-> FALSE] stands for ValueError.
int(s) == IntStripped(Strip(s))

\* The decimal digits of n >= 0.
RECURSIVE Decimal(_)
Decimal(n) ==
    IF n < 10 THEN <<DigitChars[n + 1]>>
    ELSE Decimal(n \div 10) \o <<DigitChars[(n % 10) + 1]>>

\* The format spec 0<width>d for n >= 0: zero-padded to at least width digits.
RECURSIVE ZeroPad(_, _)
ZeroPad(s, width) == IF Len(s) >= width THEN s ELSE ZeroPad(<<"0">> \o s, width)

FormatD(n, width) == ZeroPad(Decimal(n), width)

(***************************************************************************)
(* timedelta.                                                              *)
(***************************************************************************)
\* The timedelta of n microseconds.
Micros(n) == [ms |-> n \div 1000, us |-> n % 1000]

\* timedelta(hours=, minutes=, seconds=, milliseconds=) of integers.
timedelta(hh, mm, ss, millis) ==
    [ms |-> hh * 3600000 + mm * 60000 + ss * 1000 + millis, us |-> 0]

TdAdd(a, b) ==
    [ms |-> a.ms + b.ms + ((a.us + b.us) \div 1000), us |-> (a.us + b.us) % 1000]

TdNeg(a) ==
    IF a.us = 0 THEN [ms |-> 0 - a.ms, us |-> 0]
    ELSE [ms |-> 0 - a.ms - 1, us |-> 1000 - a.us]

TdIsNegative(a) == a.ms < 0      \* td.total_seconds() < 0

TdAbs(a) == IF TdIsNegative(a) THEN TdNeg(a) ELSE a

\* int(round(td.total_seconds() * 1000)): round() takes a tie to the even side.
TotalMs(a) ==
    IF a.us < 500 THEN a.ms
    ELSE IF a.us > 500 THEN a.ms + 1
    ELSE IF a.ms % 2 = 0 THEN a.ms ELSE a.ms + 1

(***************************************************************************)
(* The Duration Codec.                                                     *)
(***************************************************************************)
\* The ValueError parse_hhmmss_mmm raises: its message carries the text.
InvalidTimeFormat(s) ==
    [ok |-> FALSE,
     error |-> [type |-> "ValueError", message |-> "Invalid time format", text |-> s]]

Parsed(d) == [ok |-> TRUE, td |-> d]

\* The two-field branch reading its fields as hours and minutes.
ParseInts_short_as_hours(s, fields, millis) ==
    IF (\E k \in 1..Len(fields) : ~fields[k].ok) \/ ~millis.ok
    THEN InvalidTimeFormat(s)
    ELSE IF Len(fields) = 3
    THEN Parsed(timedelta(fields[1].val, fields[2].val, fields[3].val, millis.val))
    ELSE Parsed(timedelta(fields[1].val, fields[2].val, 0, millis.val))

\* hh, mm, ss = map(int, parts) or hh = 0; mm, ss = map(int, parts), then
\* millis = int(ms) and the timedelta.
ParseInts(s, fields, millis) ==
    IF (\E k \in 1..Len(fields) : ~fields[k].ok) \/ ~millis.ok
    THEN InvalidTimeFormat(s)
    ELSE IF Len(fields) = 3
    THEN Parsed(timedelta(fields[1].val, fields[2].val, fields[3].val, millis.val))
    ELSE Parsed(timedelta(0, fields[1].val, fields[2].val, millis.val))

\* The branch on len(parts).
ParseParts(s, parts, ms) ==
    IF Len(parts) \notin {2, 3} THEN InvalidTimeFormat(s)
    ELSE ParseInts(s, [k \in 1..Len(parts) |-> int(parts[k])], int(ms))

\* hms, ms = s.split("."): the unpacking raises unless there are two parts.
ParseHalves(s, halves) ==
    IF Len(halves) # 2 THEN InvalidTimeFormat(s)
    ELSE ParseParts(s, Split(halves[1], ":"), halves[2])

\* parse_hhmmss_mmm(s): [ok |-> TRUE, td |-> the timedelta] or the ValueError.
\* Every exception of the body (the unpacking of s.split("."), int(), the
\* explicit raise) is re-raised as that one ValueError.
parse_hhmmss_mmm(s) == ParseHalves(s, Split(s, "."))

\* format_hhmmss_mmm with the negative total replaced by its absolute value
\* instead of zero.
format_hhmmss_mmm_abs(d) ==
    LET t             == TotalMs(d)
        total_ms      == IF t < 0 THEN 0 - t ELSE t
        total_seconds == total_ms \div 1000
        total_minutes == total_seconds \div 60
    IN  FormatD(total_minutes \div 60, 2) \o <<":">> \o FormatD(total_minutes % 60, 2)
        \o <<":">> \o FormatD(total_seconds % 60, 2) \o <<".">>
        \o FormatD(total_ms % 1000, 3)

\* format_hhmmss_mmm with the hours cut to two digits.
format_hhmmss_mmm_hh2(d) ==
    LET t             == TotalMs(d)
        total_ms      == IF t < 0 THEN 0 ELSE t
        total_seconds == total_ms \div 1000
        total_minutes == total_seconds \div 60
    IN  FormatD((total_minutes \div 60) % 100, 2) \o <<":">>
        \o FormatD(total_minutes % 60, 2)
        \o <<":">> \o FormatD(total_seconds % 60, 2) \o <<".">>
        \o FormatD(total_ms % 1000, 3)

format_hhmmss_mmm(d) ==
    LET t             == TotalMs(d)
        total_ms      == IF t < 0 THEN 0 ELSE t
        ms            == total_ms % 1000
        total_seconds == total_ms \div 1000
        ss            == total_seconds % 60
        total_minutes == total_seconds \div 60
        mm            == total_minutes % 60
        hh            == total_minutes \div 60
    IN  FormatD(hh, 2) \o <<":">> \o FormatD(mm, 2) \o <<":">> \o FormatD(ss, 2)
        \o <<".">> \o FormatD(ms, 3)

(***************************************************************************)
(* TIME_RE, as re.match applies it.                                        *)
(***************************************************************************)
CharAt(s, k) == IF k \in 1..Len(s) THEN s[k] ELSE None

DigitsAt(s, k, n) == \A j \in k..(k + n - 1) : IsDigit(CharAt(s, j))

\* \d{2}:\d{2}\.\d{3} at position k
ShortTsAt(s, k) ==
    /\ DigitsAt(s, k, 2) /\ CharAt(s, k + 2) = ":"
    /\ DigitsAt(s, k + 3, 2) /\ CharAt(s, k + 5) = "."
    /\ DigitsAt(s, k + 6, 3)

\* The timestamp group with the dot left unescaped: any character but a
\* newline is taken where the "." stands.
TsLen_anydot(s, k) ==
    LET short(j) == /\ DigitsAt(s, j, 2) /\ CharAt(s, j + 2) = ":"
                    /\ DigitsAt(s, j + 3, 2) /\ CharAt(s, j + 5) \notin {None, "\n"}
                    /\ DigitsAt(s, j + 6, 3)
    IN  IF DigitsAt(s, k, 2) /\ CharAt(s, k + 2) = ":" /\ short(k + 3) THEN 12
        ELSE IF short(k) THEN 9
        ELSE 0

\* (?:\d{2}:)?\d{2}:\d{2}\.\d{3} at position k: the length matched, 0 for no
\* match.  The optional hours group is tried first.
TsLen(s, k) ==
    IF DigitsAt(s, k, 2) /\ CharAt(s, k + 2) = ":" /\ ShortTsAt(s, k + 3) THEN 12
    ELSE IF ShortTsAt(s, k) THEN 9
    ELSE 0

\* \s* from position k: the first position it does not take.
RECURSIVE SkipSpace(_, _)
SkipSpace(s, k) == IF k <= Len(s) /\ IsSpace(s[k]) THEN SkipSpace(s, k + 1) ELSE k

NoMatch == [matched |-> FALSE]

\* (?P<rest>.*)$ on the text left after the end timestamp: "." takes no
\* newline, and "$" stands at the end of the text or before a newline that
\* ends it.
ReRest(line, p1, n1, p3, n2, rest) ==
    IF \E k \in 1..Len(rest) : rest[k] = "\n" THEN NoMatch
    ELSE [matched |-> TRUE,
          g1      |-> SubSeq(line, 1, p1 - 1),
          start   |-> SubSeq(line, p1, p1 + n1 - 1),
          end     |-> SubSeq(line, p3, p3 + n2 - 1),
          rest    |-> rest]

\* (?P<end>...) at p3
ReEnd(line, p1, n1, p3, n2) ==
    IF n2 = 0 THEN NoMatch
    ELSE ReRest(line, p1, n1, p3, n2,
                IF CharAt(line, Len(line)) = "\n" /\ p3 + n2 <= Len(line)
                THEN SubSeq(line, p3 + n2, Len(line) - 1)
                ELSE SubSeq(line, p3 + n2, Len(line)))

\* -->\s* at p2
ReArrow(line, p1, n1, p2) ==
    IF CharAt(line, p2) = "-" /\ CharAt(line, p2 + 1) = "-" /\ CharAt(line, p2 + 2) = ">"
    THEN ReEnd(line, p1, n1, SkipSpace(line, p2 + 3),
               TsLen(line, SkipSpace(line, p2 + 3)))
    ELSE NoMatch

\* (?P<start>...)\s* at p1
ReStart(line, p1, n1) ==
    IF n1 = 0 THEN NoMatch ELSE ReArrow(line, p1, n1, SkipSpace(line, p1 + n1))

\* ^(\s*) and what follows it
ReLead(line, p1) == ReStart(line, p1, TsLen(line, p1))

\* TIME_RE.match(line): the groups 1, start, end and rest, or no match.  No
\* part of the pattern can match in two ways that matter: whitespace is
\* followed by a digit or by "-", and the two timestamp forms differ in their
\* sixth character.
TIME_RE(line) == ReLead(line, SkipSpace(line, 1))

(***************************************************************************)
(* compute_shift and shift_line.                                           *)
(***************************************************************************)
Some(x) == <<x>>
Nothing == <<>>

Returned(d) == [raised |-> "no", td |-> d]
Raised(exc) == [raised |-> exc]

\* timedelta(seconds=x) for the float x that argparse's type=float produced.
\* A finite x is held as its whole number of microseconds; float("inf") makes
\* timedelta raise OverflowError and float("nan") ValueError.
timedelta_seconds(x) ==
    IF x.kind = "inf" THEN Raised("OverflowError")
    ELSE IF x.kind = "nan" THEN Raised("ValueError")
    ELSE Returned(Micros(x.micros))

\* shift = parse_hhmmss_mmm(args.offset)
OffsetShift(p) == IF p.ok THEN Returned(p.td) ELSE Raised("ValueError")

\* The shift before --subtract is looked at.
ChosenShift(a) ==
    IF a.seconds.kind # "none" THEN timedelta_seconds(a.seconds)
    ELSE IF a.offset # Nothing THEN OffsetShift(parse_hhmmss_mmm(a.offset[1]))
    ELSE Returned(timedelta(0, 22, 58, 0))

\* The return statement negating only a shift that --seconds gave.
ReturnShift_seconds_only(a, r) ==
    IF r.raised = "no" /\ a.subtract /\ a.seconds.kind # "none"
    THEN Returned(TdNeg(r.td)) ELSE r

\* return -shift if args.subtract else shift
ReturnShift(a, r) ==
    IF r.raised = "no" /\ a.subtract THEN Returned(TdNeg(r.td)) ELSE r

compute_shift(a) == ReturnShift(a, ChosenShift(a))

Arrow == <<" ", "-", "-", ">", " ">>

LineReturned(l) == [raised |-> FALSE, value |-> l]
LineRaised == [raised |-> TRUE]

\* The two clamps: a timedelta below zero becomes timedelta(0).
Clamp(d) == IF TdIsNegative(d) THEN Micros(0) ELSE d

\* The returned f-string with group 1 left out.
Rebuild_no_lead(m, new_start, new_end) ==
    LineReturned(format_hhmmss_mmm(new_start) \o Arrow
                 \o format_hhmmss_mmm(new_end) \o m.rest \o <<"\n">>)

\* The returned f-string.
Rebuild(m, new_start, new_end) ==
    LineReturned(m.g1 \o format_hhmmss_mmm(new_start) \o Arrow
                 \o format_hhmmss_mmm(new_end) \o m.rest \o <<"\n">>)

\* The body after the two parse_hhmmss_mmm calls, either of which may raise.
ShiftParsed(m, d, start_td, end_td) ==
    IF ~start_td.ok \/ ~end_td.ok THEN LineRaised
    ELSE Rebuild(m, Clamp(TdAdd(start_td.td, d)), Clamp(TdAdd(end_td.td, d)))

\* The early return ending the line it returns with a newline.
ShiftMatch_newline(line, d, m) ==
    IF ~m.matched
    THEN LineReturned(IF CharAt(line, Len(line)) = "\n" THEN line
                      ELSE line \o <<"\n">>)
    ELSE ShiftParsed(m, d, parse_hhmmss_mmm(m.start), parse_hhmmss_mmm(m.end))

\* if not m: return line
ShiftMatch(line, d, m) ==
    IF ~m.matched THEN LineReturned(line)
    ELSE ShiftParsed(m, d, parse_hhmmss_mmm(m.start), parse_hhmmss_mmm(m.end))

\* shift_line(line, shift): [raised |-> FALSE, value |-> the line returned], or
\* raised |-> TRUE when parse_hhmmss_mmm raises on a captured timestamp.
shift_line(line, d) == ShiftMatch(line, d, TIME_RE(line))

(***************************************************************************)
(* The inputs the model draws from.                                        *)
(***************************************************************************)
NoSeconds == [kind |-> "none", micros |-> 0]
Finite(n) == [kind |-> "finite", micros |-> n]

\* --seconds: 0, 5, -5, -6, 1378 (the default 22:58), -600, a few values that
\* are not whole milliseconds, inf and nan.
SecondsArgs ==
    { Finite(0), Finite(5000000), Finite(0 - 5000000), Finite(0 - 6000000),
      Finite(1378000000), Finite(0 - 600000000),
      Finite(400), Finite(500), Finite(600), Finite(0 - 400),
      [kind |-> "inf", micros |-> 0], [kind |-> "nan", micros |-> 0] }

\* --offset: well-formed, signed and malformed texts.
OffsetArgs ==
    { <<"2", "2", ":", "5", "8", ".", "0", "0", "0">>,
      <<"0", "0", ":", "1", "0", ":", "0", "0", ".", "0", "0", "0">>,
      <<"0", "1", ":", "0", "0", ":", "0", "0", ".", "0", "0", "0">>,
      <<"0", "0", ":", "0", "0", ":", "0", "0", ".", "0", "0", "0">>,
      <<"0", "0", ":", "0", "0", ".", "5">>,
      <<"-", "0", "1", ":", "0", "0", ":", "0", "0", ".", "0", "0", "0">>,
      <<"b", "a", "d">>,
      <<"0", "0", ":", "0", "0", ":", "0", "5">>,
      <<"1", ":", "2", ":", "3", ":", "4", ".", "5">>,
      <<"0", "0", ":", "0", "0", ":", "0", "5", ",", "0", "0", "0">> }

ArgSets ==
    { [seconds |-> x, offset |-> Nothing, subtract |-> b] :
          x \in SecondsArgs, b \in BOOLEAN }
    \cup { [seconds |-> NoSeconds, offset |-> Some(o), subtract |-> b] :
          o \in OffsetArgs, b \in BOOLEAN }
    \cup { [seconds |-> NoSeconds, offset |-> Nothing, subtract |-> b] :
          b \in BOOLEAN }

\* Leading whitespace of a timing line.
Leads ==
    { <<>>,
      <<"\t", " ">> }

\* Timestamps of a timing line, in both forms.
Stamps ==
    { <<"0", "0", ":", "0", "0", ":", "0", "5", ".", "0", "0", "0">>,
      <<"0", "0", ":", "0", "0", ":", "0", "7", ".", "5", "0", "0">>,
      <<"0", "0", ":", "0", "5", ".", "0", "0", "0">>,
      <<"9", "9", ":", "0", "0", ":", "0", "0", ".", "0", "0", "0">>,
      <<"9", "9", ":", "9", "9", ":", "9", "9", ".", "9", "9", "9">>,
      <<"0", "0", ":", "0", "0", ":", "0", "0", ".", "0", "0", "0">> }

\* The arrow and the whitespace around it.
Arrows ==
    { <<"-", "-", ">">>,
      <<" ", "-", "-", ">", " ">>,
      <<" ", " ", "-", "-", ">", "\t">> }

\* The text after the end timestamp.
Rests ==
    { <<>>,
      <<" ", "a", "l", "i", "g", "n", ":", "s", "t", "a", "r", "t", " ", "l", "i", "n", "e", ":", "0">>,
      <<"x">> }

\* readlines() ends every line but possibly the last with a newline.
Terminators ==
    { <<>>,
      <<"\n">> }

TimingLines ==
    { l \o a \o ar \o b \o r \o t :
          l \in Leads, a \in Stamps, ar \in Arrows, b \in Stamps, r \in Rests,
          t \in Terminators }

\* Lines of other kinds: header, blank, cue text, cue identifier, near misses.
OtherLines ==
    { <<"W", "E", "B", "V", "T", "T", "\n">>,
      <<"\n">>,
      <<>>,
      <<"H", "e", "l", "l", "o", " ", "w", "o", "r", "l", "d", "\n">>,
      <<"H", "e", "l", "l", "o", " ", "w", "o", "r", "l", "d">>,
      <<"1", "\n">>,
      <<"x", " ", "0", "0", ":", "0", "0", ":", "0", "5", ".", "0", "0", "0", " ", "-", "-", ">", " ", "0", "0", ":", "0", "0", ":", "0", "7", ".", "5", "0", "0", "\n">>,
      <<"a", " ", "-", "-", ">", " ", "b", "\n">>,
      <<"-", "-", ">", " ", "0", "0", ":", "0", "0", ":", "0", "7", ".", "5", "0", "0", "\n">>,
      <<"0", "0", ":", "0", "0", ":", "0", "5", ".", "0", "0", "0", " ", "-", ">", " ", "0", "0", ":", "0", "0", ":", "0", "7", ".", "5", "0", "0", "\n">>,
      <<"0", "0", ":", "0", "0", ":", "0", "5", ".", "0", "0", "0", " ", "-", "-", ">", " ", "\n">>,
      <<"0", "0", ":", "0", "0", ":", "0", "5", ",", "0", "0", "0", " ", "-", "-", ">", " ", "0", "0", ":", "0", "0", ":", "0", "7", ",", "5", "0", "0", "\n">>,
      <<"0", "0", ":", "0", "0", ":", "0", "5", ".", "0", "0", "0", " ", "-", "-", ">", " ", "0", "0", ":", "0", "0", ":", "0", "7", ",", "5", "0", "0", "\n">>,
      <<"1", "0", "0", ":", "0", "0", ":", "0", "0", ".", "0", "0", "0", " ", "-", "-", ">", " ", "1", "0", "0", ":", "5", "9", ":", "5", "9", ".", "0", "0", "0", "\n">>,
      <<"0", ":", "0", "0", ":", "0", "5", ".", "0", "0", "0", " ", "-", "-", ">", " ", "0", ":", "0", "0", ":", "0", "7", ".", "5", "0", "0", "\n">>,
      <<"0", "0", ":", "0", "0", ":", "0", "5", ".", "0", "0", " ", "-", "-", ">", " ", "0", "0", ":", "0", "0", ":", "0", "7", ".", "5", "0", "0", "\n">>,
      <<"0", "0", ":", "0", "0", ":", "0", "5", ".", "0", "0", "0", " ", "-", "-", ">", " ", "0", "0", ":", "0", "0", ":", "0", "7", ".", "5", "\n">>,
      <<"0", "0", ":", "0", "0", ":", "0", "5", ".", "0", "0", "0", " ", "-", "-", ">", " ", "0", "0", ":", "0", "0", ":", "0", "7", ".", "5", "0", "0", "\n", "\n">>,
      <<"N", "O", "T", "E", " ", "0", "0", ":", "0", "0", ":", "0", "5", ".", "0", "0", "0", " ", "-", "-", ">", " ", "0", "0", ":", "0", "0", ":", "0", "7", ".", "5", "0", "0">> }

LineInputs == TimingLines \cup OtherLines

\* The lines the input files of main are made of.
MainLines ==
    { <<"W", "E", "B", "V", "T", "T", "\n">>,
      <<"0", "0", ":", "0", "0", ":", "0", "5", ".", "0", "0", "0", " ", "-", "-", ">", " ", "0", "0", ":", "0", "0", ":", "0", "7", ".", "5", "0", "0", "\n">>,
      <<" ", "0", "0", ":", "0", "1", ".", "0", "0", "0", "-", "-", ">", "0", "0", ":", "0", "2", ".", "0", "0", "0", " ", "l", "i", "n", "e", ":", "0">>,
      <<"H", "e", "l", "l", "o", " ", "w", "o", "r", "l", "d", "\n">>,
      <<"9", "9", ":", "0", "0", ":", "0", "0", ".", "0", "0", "0", " ", "-", "-", ">", " ", "9", "9", ":", "5", "9", ":", "5", "9", ".", "0", "0", "0", "\n">> }

SeqsUpTo(S, n) == UNION { [1..k -> S] : k \in 0..n }

InputFiles ==
    { [exists |-> TRUE, lines |-> f] : f \in SeqsUpTo(MainLines, MaxLines) }
    \cup { [exists |-> FALSE, lines |-> <<>>] }

(***************************************************************************)
(* main().                                                                 *)
(***************************************************************************)
NoArgs == [seconds |-> NoSeconds, offset |-> Nothing, subtract |-> FALSE]
NoFile == [exists |-> FALSE, lines |-> <<>>]

CodecIdle == td = Nothing /\ text = Nothing /\ parsed = Nothing

Init ==
    /\ pc = "start"
    /\ args \in ArgSets
    /\ input \in InputFiles
    /\ shift = Nothing
    /\ lines = <<>>
    /\ new_lines = <<>>
    /\ output = Nothing
    /\ stdout = Nothing
    /\ stderr = None
    /\ exit_code = Nothing
    /\ CodecIdle

\* sys.exit(code), or the interpreter ending on an uncaught exception.
Exit(code, message) ==
    /\ pc' = "exit"
    /\ exit_code' = Some(code)
    /\ stderr' = message

\* in_path.exists() and the exit when it does not.
CheckInput ==
    /\ pc = "start"
    /\ IF ~input.exists
       THEN Exit(1, "Error: input file not found")
       ELSE pc' = "compute" /\ UNCHANGED <<exit_code, stderr>>
    /\ UNCHANGED <<args, input, shift, lines, new_lines, output, stdout, td, text,
                   parsed>>

\* What follows compute_shift returning or raising r.
ComputeShiftDone(r) ==
    IF r.raised = "no"
    THEN /\ shift' = Some(r.td)
         /\ pc' = "read"
         /\ UNCHANGED <<exit_code, stderr>>
    ELSE IF r.raised = "ValueError"
    THEN Exit(2, "Error parsing offset") /\ UNCHANGED shift
    ELSE Exit(1, "Traceback") /\ UNCHANGED shift

\* shift = compute_shift(args) under try/except ValueError.  An exception of
\* another type is not caught: the traceback ends the process with status 1.
ComputeShift ==
    /\ pc = "compute"
    /\ ComputeShiftDone(compute_shift(args))
    /\ UNCHANGED <<args, input, lines, new_lines, output, stdout, td, text, parsed>>

\* lines = f.readlines()
ReadLines ==
    /\ pc = "read"
    /\ lines' = input.lines
    /\ pc' = "shift"
    /\ UNCHANGED <<args, input, shift, new_lines, output, stdout, stderr, exit_code,
                   td, text, parsed>>

\* What follows the comprehension, r[k] being shift_line's outcome on line k:
\* an exception of shift_line is not caught.
ShiftLinesDone(r) ==
    IF \E k \in 1..Len(r) : r[k].raised
    THEN Exit(1, "Traceback") /\ UNCHANGED new_lines
    ELSE /\ new_lines' = [k \in 1..Len(r) |-> r[k].value]
         /\ pc' = "write"
         /\ UNCHANGED <<exit_code, stderr>>

\* new_lines = [shift_line(line, shift) for line in lines]
ShiftLines ==
    /\ pc = "shift"
    /\ ShiftLinesDone([k \in 1..Len(lines) |-> shift_line(lines[k], shift[1])])
    /\ UNCHANGED <<args, input, shift, lines, output, stdout, td, text, parsed>>

\* f.writelines(new_lines) on the output file opened for writing.
WriteOutput ==
    /\ pc = "write"
    /\ output' = Some(new_lines)
    /\ pc' = "report"
    /\ UNCHANGED <<args, input, shift, lines, new_lines, stdout, stderr, exit_code,
                   td, text, parsed>>

\* The summary line, after which main returns and the process ends with 0.
Report ==
    /\ pc = "report"
    /\ stdout' = Some([direction |-> IF args.subtract THEN "backward" ELSE "forward",
                       magnitude |-> format_hhmmss_mmm(TdAbs(shift[1]))])
    /\ pc' = "exit"
    /\ exit_code' = Some(0)
    /\ UNCHANGED <<args, input, shift, lines, new_lines, output, stderr, td, text,
                   parsed>>

Next == CheckInput \/ ComputeShift \/ ReadLines \/ ShiftLines \/ WriteOutput \/ Report

Spec == Init /\ [][Next]_vars

(***************************************************************************)
(* shift_line on its own: main at its comprehension, over a file of one    *)
(* line drawn from LineInputs, with the shift its arguments gave.          *)
(***************************************************************************)
InitLine ==
    /\ pc = "shift"
    /\ args \in { a \in ArgSets : compute_shift(a).raised = "no" }
    /\ \E l \in LineInputs :
          /\ input = [exists |-> TRUE, lines |-> <<l>>]
          /\ lines = <<l>>
    /\ shift = Some(compute_shift(args).td)
    /\ new_lines = <<>>
    /\ output = Nothing
    /\ stdout = Nothing
    /\ stderr = None
    /\ exit_code = Nothing
    /\ CodecIdle

NextLine == ShiftLines

SpecLine == InitLine /\ [][NextLine]_vars

(***************************************************************************)
(* The Duration Codec on its own: format_hhmmss_mmm applied to a timedelta *)
(* and parse_hhmmss_mmm to a text, either a given one or the one           *)
(* format_hhmmss_mmm returned.                                             *)
(***************************************************************************)
\* Rendering of timestamp fields as text, by which the inputs are written.
FieldsText(hasHours, hh, mm, ss, ms, msWidth) ==
    (IF hasHours THEN FormatD(hh, 2) \o <<":">> ELSE <<>>)
    \o FormatD(mm, 2) \o <<":">> \o FormatD(ss, 2) \o <<".">> \o FormatD(ms, msWidth)

HoursIn   == {0, 1, 23, 99, 100, 123}
MinutesIn == {0, 1, 59}
SecondsIn == {0, 5, 59}
MillisIn  == {0, 1, 500, 999}

\* Durations of whole milliseconds, then some that are negative or are not
\* whole milliseconds.
DurationInputs ==
    { timedelta(hh, mm, ss, ms) :
          hh \in HoursIn, mm \in MinutesIn, ss \in SecondsIn, ms \in MillisIn }
    \cup { Micros(n) : n \in {0 - 1, 0 - 400, 0 - 500, 0 - 600, 0 - 1500,
                              0 - 5000000, 400, 500, 600, 1500, 2500} }

\* Texts of fields: minutes and seconds also out of range, milliseconds also
\* of one digit.
FieldHours   == {0, 1, 99}
FieldMinutes == {0, 1, 59, 99}
FieldSeconds == {0, 2, 75}
FieldMillis  == {0, 5, 500}
FieldWidths  == {1, 3}

FieldTexts ==
    { FieldsText(h, hh, mm, ss, ms, w) :
          h \in BOOLEAN, hh \in FieldHours, mm \in FieldMinutes, ss \in FieldSeconds,
          ms \in FieldMillis, w \in FieldWidths }

\* Texts that are signed, spaced, malformed or have three-digit hours.
OddTexts ==
    { <<"0", "0", ":", "0", "0", ":", "0", "5">>,
      <<"1", ".", "2", ".", "3">>,
      <<"a", ":", "b", ".", "c">>,
      <<"0", "0", ":", "0", "0", ":", "0", "0", ":", "0", "0", ".", "0", "0", "0">>,
      <<"0", "5", ".", "0", "0", "0">>,
      <<>>,
      <<".">>,
      <<":", ".">>,
      <<"-", "0", "1", ":", "0", "0", ":", "0", "0", ".", "0", "0", "0">>,
      <<"0", "1", ":", "-", "5", ".", "0", "0", "0">>,
      <<"0", "1", ":", "0", "2", ".", "-", "5">>,
      <<"+", "1", ":", "0", "2", ".", "5">>,
      <<" ", "1", " ", ":", " ", "2", " ", ".", " ", "3", " ">>,
      <<"1", "_", "0", ":", "0", "0", ".", "0", "0", "0">>,
      <<"1", "_", "_", "0", ":", "0", "0", ".", "0", "0", "0">>,
      <<"_", "1", ":", "0", "0", ".", "0", "0", "0">>,
      <<"0", "1", ":", "0", "2", ".">>,
      <<"0", "1", ":", "0", "2", ".", "5", "x">>,
      <<"0", "0", ":", "0", "0", ":", "0", "5", ",", "0", "0", "0">>,
      <<"0", "1", ";", "0", "2", ".", "5", "0", "0">>,
      <<"1", "0", "0", ":", "0", "0", ":", "0", "0", ".", "0", "0", "0">>,
      <<"b", "a", "d">> }

TextInputs == FieldTexts \cup OddTexts

InitCodec ==
    /\ pc = "idle"
    /\ args = NoArgs
    /\ input = NoFile
    /\ shift = Nothing
    /\ lines = <<>>
    /\ new_lines = <<>>
    /\ output = Nothing
    /\ stdout = Nothing
    /\ stderr = None
    /\ exit_code = Nothing
    /\ parsed = Nothing
    /\ \/ td \in { Some(d) : d \in DurationInputs } /\ text = Nothing
       \/ td = Nothing /\ text \in { Some(t) : t \in TextInputs }

FormatCall ==
    /\ pc = "idle"
    /\ td # Nothing
    /\ text = Nothing
    /\ text' = Some(format_hhmmss_mmm(td[1]))
    /\ UNCHANGED <<pc, args, input, shift, lines, new_lines, output, stdout, stderr,
                   exit_code, td, parsed>>

ParseCall ==
    /\ pc = "idle"
    /\ text # Nothing
    /\ parsed = Nothing
    /\ parsed' = Some(parse_hhmmss_mmm(text[1]))
    /\ UNCHANGED <<pc, args, input, shift, lines, new_lines, output, stdout, stderr,
                   exit_code, td, text>>

NextCodec == FormatCall \/ ParseCall

SpecCodec == InitCodec /\ [][NextCodec]_vars

(***************************************************************************)
(* Properties.                                                             *)
(***************************************************************************)
ZeroText == <<"0", "0", ":", "0", "0", ":", "0", "0", ".", "0", "0", "0">>

ExampleLine == <<"0", "0", ":", "0", "0", ":", "0", "5", ".", "0", "0", "0", " ", "-", "-", ">", " ", "0", "0", ":", "0", "0", ":", "0", "7", ".", "5", "0", "0">>

\* Line k has been through shift_line: new_lines is filled by ShiftLines alone.
Shifted(k) == k \in 1..Len(new_lines)

\* The groups TIME_RE gives for line are where the claim says they are: the
\* leading whitespace at the front, the rest fragment at the back before the
\* line's newline if it has one.
GroupsInPlace(line, m) ==
    /\ \A j \in 1..Len(m.g1) : IsSpace(m.g1[j])
    /\ SubSeq(line, 1, Len(m.g1) + Len(m.start)) = m.g1 \o m.start
    /\ \/ SubSeq(line, Len(line) - Len(m.end) - Len(m.rest) + 1, Len(line))
              = m.end \o m.rest
       \/ SubSeq(line, Len(line) - Len(m.end) - Len(m.rest), Len(line))
              = m.end \o m.rest \o <<"\n">>

\* The duration parse_hhmmss_mmm gives for a captured timestamp, moved by d.
Moved(stamp, d) == TdAdd(parse_hhmmss_mmm(stamp).td, d)

\* C1: every line that matches the Timing Line pattern is returned as its
\* leading whitespace, Format(start + shift), " --> ", Format(end + shift),
\* its rest fragment and one newline, whatever the spacing of its arrow was.
C1_MatchedLineRebuilt ==
    \A k \in 1..Len(new_lines) :
        LET m == TIME_RE(lines[k])
        IN  m.matched =>
                /\ GroupsInPlace(lines[k], m)
                /\ new_lines[k] =
                       m.g1 \o format_hhmmss_mmm(Moved(m.start, shift[1]))
                       \o <<" ", "-", "-", ">", " ">>
                       \o format_hhmmss_mmm(Moved(m.end, shift[1]))
                       \o m.rest \o <<"\n">>

\* The example of the claim: 00:00:05.000 --> 00:00:07.500 moved by +22:58.
C1_Witness ==
    /\ Shifted(1)
    /\ lines[1] = ExampleLine
    /\ shift = Some(timedelta(0, 22, 58, 0))
    /\ new_lines[1] = <<"0", "0", ":", "2", "3", ":", "0", "3", ".", "0", "0", "0", " ", "-", "-", ">", " ", "0", "0", ":", "2", "3", ":", "0", "5", ".", "5", "0", "0", "\n">>

\* C2: every line that does not match the Timing Line pattern (so every
\* header, blank line, cue identifier, cue text and near miss of OtherLines)
\* is returned as it was, line terminator included.
C2_OtherLineUnchanged ==
    \A k \in 1..Len(new_lines) :
        /\ lines[k] \in OtherLines => ~TIME_RE(lines[k]).matched
        /\ ~TIME_RE(lines[k]).matched => new_lines[k] = lines[k]

\* A cue text without a line terminator went through shift_line.
C2_Witness ==
    /\ Shifted(1)
    /\ lines[1] = <<"H", "e", "l", "l", "o", " ", "w", "o", "r", "l", "d">>
    /\ new_lines[1] = lines[1]
    /\ shift[1] # Micros(0)

\* C3: format_hhmmss_mmm of a negative duration is 00:00:00.000, and
\* shift_line writes each of the two timestamps as 00:00:00.000 exactly when
\* its own moved value is negative, whatever the other one is.
C3_NegativeNeverWritten ==
    \A k \in 1..Len(new_lines) :
        TIME_RE(lines[k]).matched =>
            LET m  == TIME_RE(lines[k])
                s0 == Moved(m.start, shift[1])
                e0 == Moved(m.end, shift[1])
                S  == IF s0.ms < 0 THEN ZeroText ELSE format_hhmmss_mmm(s0)
                E  == IF e0.ms < 0 THEN ZeroText ELSE format_hhmmss_mmm(e0)
            IN  /\ s0.ms < 0 => format_hhmmss_mmm(s0) = ZeroText
                /\ e0.ms < 0 => format_hhmmss_mmm(e0) = ZeroText
                /\ TdIsNegative(shift[1]) => format_hhmmss_mmm(shift[1]) = ZeroText
                /\ SubSeq(new_lines[k], Len(m.g1) + 1, Len(m.g1) + Len(S)) = S
                /\ SubSeq(new_lines[k], Len(new_lines[k]) - Len(m.rest) - Len(E),
                          Len(new_lines[k]) - Len(m.rest) - 1) = E

\* The start is clamped to zero while the end keeps its positive value.
C3_Witness ==
    /\ Shifted(1)
    /\ lines[1] = ExampleLine
    /\ shift = Some(Micros(0 - 6000000))
    /\ new_lines[1] = <<"0", "0", ":", "0", "0", ":", "0", "0", ".", "0", "0", "0", " ", "-", "-", ">", " ", "0", "0", ":", "0", "0", ":", "0", "1", ".", "5", "0", "0", "\n">>

\* A non-negative duration of whole milliseconds.
WholeMs(d) == d.us = 0 /\ d.ms >= 0

\* C4: for a duration d of non-negative hours, minutes, seconds and 0-999
\* milliseconds, parsing the text format_hhmmss_mmm gave for d returns d, and
\* formatting that again returns the same text.
C4_RoundTrip ==
    (td # Nothing /\ text # Nothing /\ parsed # Nothing /\ WholeMs(td[1])) =>
        /\ parsed[1].ok
        /\ parsed[1].td = td[1]
        /\ format_hhmmss_mmm(parsed[1].td) = text[1]

\* A duration of 100 hours or more went through format and parse.
C4_Witness ==
    /\ td = Some(timedelta(123, 59, 59, 999))
    /\ text = Some(<<"1", "2", "3", ":", "5", "9", ":", "5", "9", ".", "9", "9", "9">>)
    /\ parsed # Nothing
    /\ parsed[1].ok

\* A field of a timestamp text that reads as a non-negative integer.
NonNegativeInt(f) == int(f).ok /\ int(f).val >= 0

\* The text has a ".", two or three ":"-separated fields before it, and every
\* field, the milliseconds included, reads as a non-negative integer.
WellFormedText(s) ==
    /\ Len(Split(s, ".")) = 2
    /\ Len(Split(Split(s, ".")[1], ":")) \in {2, 3}
    /\ \A k \in 1..Len(Split(Split(s, ".")[1], ":")) :
           NonNegativeInt(Split(Split(s, ".")[1], ":")[k])
    /\ NonNegativeInt(Split(s, ".")[2])

\* C5: parse_hhmmss_mmm succeeds only on a text all of whose fields are
\* non-negative integers, so that what it returns is never negative; on any
\* other text it raises the error that carries the text.
C5_ParseOnlyNonNegative ==
    parsed # Nothing =>
        /\ parsed[1].ok => (WellFormedText(text[1]) /\ parsed[1].td.ms >= 0)
        /\ ~WellFormedText(text[1]) =>
               (~parsed[1].ok /\ parsed[1].error.text = text[1])

\* C6: on every line TIME_RE matches, parse_hhmmss_mmm succeeds on both
\* captured timestamps, so that shift_line raises on no line: the
\* comprehension of main always runs to its end.
C6_MatchedStampsParse ==
    /\ \A k \in 1..Len(lines) :
           LET m == TIME_RE(lines[k])
           IN  m.matched =>
                   /\ parse_hhmmss_mmm(m.start).ok
                   /\ parse_hhmmss_mmm(m.end).ok
    /\ pc # "shift" => (pc = "write" /\ stderr = None /\ Len(new_lines) = Len(lines))

\* A line of a short-form start and an out-of-range end was matched and shifted.
C6_Witness ==
    /\ Shifted(1)
    /\ TIME_RE(lines[1]).matched
    /\ TIME_RE(lines[1]).start = <<"0", "0", ":", "0", "5", ".", "0", "0", "0">>
    /\ TIME_RE(lines[1]).end = <<"9", "9", ":", "9", "9", ":", "9", "9", ".", "9", "9", "9">>

\* C7: MM:SS.mmm parses to minutes*60 + seconds seconds plus the milliseconds
\* field taken as written, the same as 00:MM:SS.mmm does, and HH:MM:SS.mmm to
\* hours*3600 + minutes*60 + seconds seconds plus the milliseconds; minutes and
\* seconds of 60 and more are taken as they are.
C7_ShortFormIsLongForm ==
    parsed # Nothing =>
        \A hh \in FieldHours, mm \in FieldMinutes, ss \in FieldSeconds,
           ms \in FieldMillis, w \in FieldWidths :
            /\ text[1] = FieldsText(FALSE, 0, mm, ss, ms, w) =>
                   /\ parsed[1] = Parsed([ms |-> (mm * 60 + ss) * 1000 + ms, us |-> 0])
                   /\ parse_hhmmss_mmm(FieldsText(TRUE, 0, mm, ss, ms, w)) = parsed[1]
            /\ text[1] = FieldsText(TRUE, hh, mm, ss, ms, w) =>
                   parsed[1] = Parsed([ms |-> (hh * 3600 + mm * 60 + ss) * 1000 + ms,
                                       us |-> 0])

\* 01:02.500 was parsed: 1 minute 2.5 seconds.
C7_Witness ==
    /\ text = Some(<<"0", "1", ":", "0", "2", ".", "5", "0", "0">>)
    /\ parsed = Some(Parsed([ms |-> 62500, us |-> 0]))

\* The arguments of the run with --subtract set to b.
WithSubtract(b) == [args EXCEPT !.subtract = b]

\* --seconds -s for the run's --seconds s, without --subtract.
NegatedSeconds ==
    [seconds |-> Finite(0 - args.seconds.micros), offset |-> Nothing,
     subtract |-> FALSE]

\* C8: with --subtract compute_shift returns the negation of what it returns
\* without it for the same --seconds, --offset or default (and raises when
\* that raises), the run's shift is the one its flag asks for, and a run with
\* --subtract --seconds s writes the lines a run with --seconds -s writes.
C8_SubtractNegates ==
    /\ compute_shift(WithSubtract(FALSE)).raised = "no" =>
           /\ compute_shift(WithSubtract(TRUE)).raised = "no"
           /\ TdAdd(compute_shift(WithSubtract(TRUE)).td,
                    compute_shift(WithSubtract(FALSE)).td) = Micros(0)
    /\ compute_shift(WithSubtract(FALSE)).raised # "no" =>
           compute_shift(WithSubtract(TRUE)) = compute_shift(WithSubtract(FALSE))
    /\ shift # Nothing => shift[1] = compute_shift(WithSubtract(args.subtract)).td
    /\ (shift # Nothing /\ args.subtract) =>
           TdAdd(shift[1], compute_shift(WithSubtract(FALSE)).td) = Micros(0)
    /\ (args.subtract /\ args.seconds.kind = "finite") =>
           \A k \in 1..Len(new_lines) :
               new_lines[k] = shift_line(lines[k], compute_shift(NegatedSeconds).td).value

\* --subtract --seconds 5 moved a timing line back by five seconds.
C8_Witness ==
    /\ pc = "exit"
    /\ args.subtract
    /\ args.seconds = Finite(5000000)
    /\ shift = Some(Micros(0 - 5000000))
    /\ output = Some(<<<<"0", "0", ":", "0", "0", ":", "0", "0", ".", "0", "0", "0", " ", "-", "-", ">", " ", "0", "0", ":", "0", "0", ":", "0", "2", ".", "5", "0", "0", "\n">>>>)

\* The offset the command line gave cannot be made a duration: the --offset
\* text does not parse, or --seconds is not a finite number.
OffsetFails ==
    \/ args.offset # Nothing /\ ~parse_hhmmss_mmm(args.offset[1]).ok
    \/ args.seconds.kind \in {"inf", "nan"}

\* C9: a run ends with 1 when the input file is missing, with 2 when it
\* exists and the offset fails to parse, with 0 otherwise; the output file is
\* written only in a run that ends with 0, after the shift was computed and
\* the lines were read.
C9_ExitCodes ==
    /\ pc = "exit" =>
           exit_code = Some(IF ~input.exists THEN 1 ELSE IF OffsetFails THEN 2 ELSE 0)
    /\ output # Nothing =>
           /\ pc \in {"report", "exit"}
           /\ shift # Nothing
           /\ lines = input.lines
           /\ pc = "exit" => exit_code = Some(0)
    /\ (pc = "exit" /\ exit_code = Some(0)) => output # Nothing

\* C10: the line shift_line returns for a matching line matches the pattern
\* again, and shift_line with a shift of zero returns it as it is.
C10_ShiftedLineMatchesAgain ==
    \A k \in 1..Len(new_lines) :
        TIME_RE(lines[k]).matched =>
            /\ TIME_RE(new_lines[k]).matched
            /\ shift_line(new_lines[k], Micros(0)) = LineReturned(new_lines[k])

====
